---- MODULE Spec2Model ----
(***************************************************************************)
(* A model of mandelbrot/src/main.rs: the command line front end (main),   *)
(* the argument parsers, the parallel renderer (draw_fractal) and the      *)
(* per-pixel escape-time evaluation and colouring (compute_color).         *)
(*                                                                         *)
(* Numbers.  An f64 is modelled by the exact rational it denotes, a record *)
(* [n, d] in lowest terms with d > 0; every input drawn below is a dyadic  *)
(* or small rational on which the code's f64 operations are exact.  A      *)
(* string is the sequence of its characters.  An Option is <<>> (None) or  *)
(* <<v>> (Some(v)).                                                        *)
(***************************************************************************)
EXTENDS Integers, Sequences, FiniteSets, TLC

\* ---------------------------------------------------------------- bounds

\* Worker threads of the rayon pool that run the par_bridge closure.
NumWorkers == 2
\* Largest iteration bound drawn for the escape-loop specification.
MaxIter == 3
\* Seeds and parameters of the escape-loop specification have coordinates
\* k/2 with k in -Range..Range.
Range == 3

\* ------------------------------------------------------------- rationals

Abs(a) == IF a < 0 THEN -a ELSE a

RECURSIVE Gcd(_, _)
Gcd(a, b) == IF b = 0 THEN a ELSE Gcd(b, a % b)

Lcm(a, b) == (a \div Gcd(a, b)) * b

\* The rational n/d (d # 0) in lowest terms with a positive denominator.
Rat(n, d) ==
    LET g == Gcd(Abs(n), Abs(d))
        s == IF d < 0 THEN -1 ELSE 1
    IN  [n |-> s * (n \div g), d |-> s * (d \div g)]

FromInt(k) == [n |-> k, d |-> 1]

RAdd(a, b) ==
    LET l == Lcm(a.d, b.d)
    IN  Rat(a.n * (l \div a.d) + b.n * (l \div b.d), l)

RNeg(a) == [n |-> -a.n, d |-> a.d]

RSub(a, b) == RAdd(a, RNeg(b))

RMul(a, b) ==
    LET g1 == Gcd(Abs(a.n), b.d)
        g2 == Gcd(Abs(b.n), a.d)
    IN  Rat((a.n \div g1) * (b.n \div g2), (a.d \div g2) * (b.d \div g1))

\* a / b for b # 0.
RDiv(a, b) == RMul(a, Rat(b.d, b.n))

RLe(a, b) == a.n * b.d <= b.n * a.d

\* `x as u32` of a non-negative f64: truncation toward zero.
Trunc(a) == a.n \div a.d

\* --------------------------------------------------------------- complex

Complex(re, im) == [re |-> re, im |-> im]

CZero == Complex(FromInt(0), FromInt(0))

CAdd(a, b) == Complex(RAdd(a.re, b.re), RAdd(a.im, b.im))

CMul(a, b) ==
    Complex(RSub(RMul(a.re, b.re), RMul(a.im, b.im)),
            RAdd(RMul(a.re, b.im), RMul(a.im, b.re)))

\* w.norm() <= 2.0, decided on the squares: re^2 + im^2 <= 4.
NormLe2(w) == RLe(RAdd(RMul(w.re, w.re), RMul(w.im, w.im)), FromInt(4))

\* --------------------------------------------------------- compute_color

ColorSchemes == {"BlackAndWhite", "Rainbow", "Grayscale"}

Black == <<0, 0, 0>>

\* Mutant of LoopCond: the bound is tested with <= (one pass too many).
LoopCondOffByOne(i, w, max_iter) == i <= max_iter /\ NormLe2(w)

\* Mutant of LoopCond: the escape radius is max_iter instead of 2.0.
LoopCondBoundAsRadius(i, w, max_iter) ==
    /\ i < max_iter
    /\ RLe(RAdd(RMul(w.re, w.re), RMul(w.im, w.im)),
           FromInt(max_iter * max_iter))

\* The while condition: i < max_iter && w.norm() <= 2.0 (&& short-circuits).
LoopCond(i, w, max_iter) == i < max_iter /\ NormLe2(w)

\* The loop body's assignment to w: w = w * w + c.
LoopBody(w, c) == CAdd(CMul(w, w), c)

\* The loop, run from (w, i) to its exit: the values of i and w at the exit.
RECURSIVE EscapeLoop(_, _, _, _)
EscapeLoop(w, c, i, max_iter) ==
    IF LoopCond(i, w, max_iter)
    THEN EscapeLoop(LoopBody(w, c), c, i + 1, max_iter)
    ELSE [i |-> i, w |-> w]

\* The value of i after the loop started at w = z, i = 0.
EscapeCount(z, c, max_iter) == EscapeLoop(z, c, 0, max_iter).i

\* ((i as f64 / max_iter as f64) * 255.0) as u8, for i < max_iter.
Intensity(i, max_iter) == (i * 255) \div max_iter

\* The Rainbow channels ((t^0.3 * 255) as u8, (t^0.5 * 255) as u8,
\* ((1 - t^0.7) * 255) as u8) for t = i / max_iter, tabulated for
\* max_iter in 1..6 (row) and i in 0..max_iter-1 (column i + 1).
RainbowTable ==
    << << <<0, 0, 255>> >>,
       << <<0, 0, 255>>, <<207, 180, 98>> >>,
       << <<0, 0, 255>>, <<183, 147, 136>>, <<225, 208, 63>> >>,
       << <<0, 0, 255>>, <<168, 127, 158>>, <<207, 180, 98>>,
          <<233, 220, 46>> >>,
       << <<0, 0, 255>>, <<157, 114, 172>>, <<193, 161, 120>>,
          <<218, 197, 76>>, <<238, 228, 36>> >>,
       << <<0, 0, 255>>, <<148, 104, 182>>, <<183, 147, 136>>,
          <<207, 180, 98>>, <<225, 208, 63>>, <<241, 232, 30>> >> >>

BlackAndWhiteArm(i, max_iter) ==
    IF i = max_iter THEN Black
    ELSE <<Intensity(i, max_iter), Intensity(i, max_iter),
           Intensity(i, max_iter)>>

RainbowArm(i, max_iter) ==
    IF i = max_iter THEN Black ELSE RainbowTable[max_iter][i + 1]

\* Mutant of GrayscaleArm: the in-set test compares i with 0.
GrayscaleArmZeroTest(i, max_iter) ==
    IF i = 0 THEN Black
    ELSE <<Intensity(i, max_iter), Intensity(i, max_iter),
           Intensity(i, max_iter)>>

GrayscaleArm(i, max_iter) ==
    IF i = max_iter THEN Black
    ELSE <<Intensity(i, max_iter), Intensity(i, max_iter),
           Intensity(i, max_iter)>>

\* match color_scheme { ... }
ColorMatch(i, max_iter, color_scheme) ==
    CASE color_scheme = "BlackAndWhite" -> BlackAndWhiteArm(i, max_iter)
      [] color_scheme = "Rainbow" -> RainbowArm(i, max_iter)
      [] color_scheme = "Grayscale" -> GrayscaleArm(i, max_iter)

compute_color(z, c, max_iter, color_scheme) ==
    ColorMatch(EscapeCount(z, c, max_iter), max_iter, color_scheme)

\* --------------------------------------------------------------- parsing

None == <<>>
Some(v) == <<v>>
IsSome(o) == o # <<>>
Unwrap(o) == o[1]

Digits == <<"0", "1", "2", "3", "4", "5", "6", "7", "8", "9">>

IsDigit(ch) == \E k \in 1..10 : Digits[k] = ch

DigitVal(ch) == (CHOOSE k \in 1..10 : Digits[k] = ch) - 1

AllDigits(s) == \A k \in 1..Len(s) : IsDigit(s[k])

\* The value of a digit string, most significant digit first.
RECURSIVE DigitsVal(_)
DigitsVal(s) ==
    IF s = <<>> THEN 0
    ELSE 10 * DigitsVal(SubSeq(s, 1, Len(s) - 1)) + DigitVal(s[Len(s)])

RECURSIVE Pow10(_)
Pow10(k) == IF k = 0 THEN 1 ELSE 10 * Pow10(k - 1)

\* str::split(sep).collect(): the pieces between the separators, in order
\* (n separators give n + 1 pieces, empty ones included).
RECURSIVE Split(_, _)
Split(s, sep) ==
    IF \E k \in 1..Len(s) : s[k] = sep
    THEN LET k == CHOOSE j \in 1..Len(s) :
                      s[j] = sep /\ \A m \in 1..(j - 1) : s[m] # sep
         IN  <<SubSeq(s, 1, k - 1)>> \o Split(SubSeq(s, k + 1, Len(s)), sep)
    ELSE <<s>>

\* u32::from_str: an optional '+', then one or more decimal digits.  The
\* strings drawn have at most nine digits, below the overflow error.
U32FromStr(s) ==
    LET body == IF s # <<>> /\ s[1] = "+" THEN Tail(s) ELSE s
    IN  IF body # <<>> /\ AllDigits(body) /\ Len(body) <= 9
        THEN Some(DigitsVal(body)) ELSE None

\* f64::from_str on decimal literals: an optional sign, digits, and an
\* optional '.' with digits, at least one digit in all.  The strings drawn
\* hold no exponent and no inf/nan literal.
F64FromStr(s) ==
    LET neg  == s # <<>> /\ s[1] = "-"
        body == IF s # <<>> /\ s[1] \in {"+", "-"} THEN Tail(s) ELSE s
        parts == Split(body, ".")
        ip == parts[1]
        fp == IF Len(parts) = 2 THEN parts[2] ELSE <<>>
        ok == /\ Len(parts) <= 2
              /\ AllDigits(ip) /\ AllDigits(fp)
              /\ Len(ip) + Len(fp) >= 1
        mag == Rat(DigitsVal(ip) * Pow10(Len(fp)) + DigitsVal(fp),
                   Pow10(Len(fp)))
    IN  IF ok THEN Some(IF neg THEN RNeg(mag) ELSE mag) ELSE None

\* Mutant of parse_resolution: a lone <width> is taken as a square size.
parse_resolution_square(resolution) ==
    LET parts == Split(resolution, "x")
        width == U32FromStr(parts[1])
        height == U32FromStr(parts[Len(parts)])
    IN  IF Len(parts) > 2 THEN None
        ELSE IF ~IsSome(width) THEN None
        ELSE IF ~IsSome(height) THEN None
        ELSE Some(<<Unwrap(width), Unwrap(height)>>)

parse_resolution(resolution) ==
    LET parts == Split(resolution, "x")
    IN  IF Len(parts) # 2 THEN None
        ELSE LET width == U32FromStr(parts[1])
                 height == U32FromStr(parts[2])
             IN  IF ~IsSome(width) THEN None
                 ELSE IF ~IsSome(height) THEN None
                 ELSE Some(<<Unwrap(width), Unwrap(height)>>)

parse_complex_number(s) ==
    LET parts == Split(s, ",")
    IN  IF Len(parts) # 2 THEN None
        ELSE LET re == F64FromStr(parts[1])
                 im == F64FromStr(parts[2])
             IN  IF ~IsSome(re) THEN None
                 ELSE IF ~IsSome(im) THEN None
                 ELSE Some(Complex(Unwrap(re), Unwrap(im)))

\* ---------------------------------------------------------- draw_fractal

Half == [n |-> 1, d |-> 2]

\* capture_w = (width as f64 / zoom_level) as u32 (and capture_h alike).
CaptureDim(size, zoom_level) == Trunc(RDiv(FromInt(size), zoom_level))

\* view_w = capture_w as f64 / w * scale (and view_h alike).
ViewSize(size, scale, zoom_level) ==
    RMul(RDiv(FromInt(CaptureDim(size, zoom_level)), FromInt(size)), scale)

\* view_x = pan_x - view_w / 2.0 (and view_y alike).
ViewOrigin(size, scale, zoom_level, pan) ==
    RSub(pan, RDiv(ViewSize(size, scale, zoom_level), FromInt(2)))

\* cx = (x as f64 - 0.5 * capture_w as f64) * scale / w + view_x (and cy
\* alike, with y, capture_h, h and view_y).
MapAxis(p, size, scale, zoom_level, pan) ==
    RAdd(RDiv(RMul(RSub(FromInt(p),
                        RMul(Half, FromInt(CaptureDim(size, zoom_level)))),
                   scale),
              FromInt(size)),
         ViewOrigin(size, scale, zoom_level, pan))

\* let c = Complex::new(cx, cy) for the pixel (x, y) = px.
PixelPoint(px, wd, ht, scale, zoom_level, pan_position) ==
    Complex(MapAxis(px[1], wd, scale, zoom_level, pan_position[1]),
            MapAxis(px[2], ht, scale, zoom_level, pan_position[2]))

\* The arguments (z, c) the closure passes to compute_color for a pixel
\* mapped to the point c.
ColorCall(fractal, c) ==
    IF fractal.kind = "Mandelbrot"
    THEN [z |-> CZero, c |-> c]
    ELSE [z |-> fractal.z, c |-> c]

\* enumerate_pixels_mut yields the pixels row by row: item k is (x, y).
PixelAt(k, wd) == <<k % wd, k \div wd>>

Pixels(wd, ht) == (0..(wd - 1)) \X (0..(ht - 1))

\* Mutant of IterAdvance: an item is skipped after each one handed out.
IterSkip(k) == k + 2

\* The iterator behind par_bridge hands out one item and moves to the next.
IterAdvance(k) == k + 1

\* ------------------------------------------------------------ the inputs

ProgName == <<"m">>
OutFile == <<"o", ".", "p", "n", "g">>

\* <width>x<height>: "1x1", and "100" (no x<height>).
OutputResArgs == {<<"1", "x", "1">>, <<"1", "0", "0">>}

\* <capture_width>x<capture_height>: "2x2", "1x2", "2x" and "2x2x2".
CaptureResArgs ==
    {<<"2", "x", "2">>, <<"1", "x", "2">>, <<"2", "x">>,
     <<"2", "x", "2", "x", "2">>}

\* <max_iter>: "0", "2", "3" and "-1".
MaxIterArgs == {<<"0">>, <<"2">>, <<"3">>, <<"-", "1">>}

\* <scale>: "4.0", "1" and "4.0.0".
ScaleArgs == {<<"4", ".", "0">>, <<"1">>, <<"4", ".", "0", ".", "0">>}

StrMandelbrot == <<"m", "a", "n", "d", "e", "l", "b", "r", "o", "t">>
StrJulia == <<"j", "u", "l", "i", "a">>

\* <fractal_type>: "mandelbrot", "julia" and "newton".
FractalTypeArgs == {StrMandelbrot, StrJulia, <<"n", "e", "w", "t", "o", "n">>}

\* <c>: "-0.75,0.25", "-1,0" and "1".
ComplexArgs ==
    {<<"-", "0", ".", "7", "5", ",", "0", ".", "2", "5">>,
     <<"-", "1", ",", "0">>, <<"1">>}

\* The seven-argument command lines, and what follows them when more
\* arguments are given.
FullArgs ==
    {<<ProgName, OutFile, r, cr, m, s, f, c>> :
        r \in OutputResArgs, cr \in CaptureResArgs, m \in MaxIterArgs,
        s \in ScaleArgs, f \in FractalTypeArgs, c \in ComplexArgs}

\* Command lines of every length from the program name alone to
\* MaxExtra arguments too many.
MaxExtra == 1

ArgVectors ==
    {SubSeq(a \o [k \in 1..MaxExtra |-> <<"z">>], 1, n) :
        a \in FullArgs, n \in 1..(8 + MaxExtra)}

\* draw_fractal's zoom_level and pan_position, which the call in main
\* does not supply: no zoom and no pan, and a zoom of 2 about (1/2, 0).
ViewArgs ==
    {[zoom_level |-> FromInt(1),
      pan_position |-> <<FromInt(0), FromInt(0)>>],
     [zoom_level |-> FromInt(2),
      pan_position |-> <<Half, FromInt(0)>>]}

\* ----------------------------------------------------------------- state

VARIABLES
    args,            \* env::args(): the program name and its arguments
    pc,              \* main's position
    outcome,         \* "running", or main's result: "Ok" or "Err"
    stdout,          \* what main printed: "" or "usage"
    error,           \* the Err main returned, "" when none
    width, height,                   \* Options: the parsed output size
    capture_width, capture_height,   \* Options: the parsed capture size
    max_iter,        \* Option: the parsed iteration bound
    scale,           \* Option: the parsed scale
    fractal_type,    \* Option: the parsed FractalType
    view,            \* Option: draw_fractal's zoom_level and pan_position
    color_scheme,    \* Option: the ColorScheme given to compute_color
    imgbuf,          \* pixel -> Rgb, <<>> before ImageBuffer::new
    writes,          \* pixel -> number of assignments *pixel = color
    calls,           \* pixel -> Option: the (z, c) given to compute_color
    iter_next,       \* items the pixel iterator has handed out
    worker,          \* thread -> [st, item]: its state in for_each
    pb,              \* the progress bar's position
    resized,         \* Option: the size of the resampled image
    file,            \* the output file: "absent", "created" or "written"
    cc_z, cc_c, cc_max_iter, cc_scheme,   \* compute_color's parameters
    cc_w, cc_i,      \* compute_color's locals w and i
    cc_steps,        \* applications of w = w * w + c so far
    cc_color,        \* Option: the colour compute_color returned
    cc_pc            \* compute_color's position: "off", "loop" or "done"

mainVars ==
    <<args, pc, outcome, stdout, error, width, height, capture_width,
      capture_height, max_iter, scale, fractal_type>>

drawVars ==
    <<view, color_scheme, imgbuf, writes, calls, iter_next, worker, pb>>

postVars == <<resized, file>>

ccVars ==
    <<cc_z, cc_c, cc_max_iter, cc_scheme, cc_w, cc_i, cc_steps, cc_color,
      cc_pc>>

vars == <<mainVars, drawVars, postVars, ccVars>>

Workers == 1..NumWorkers

\* The state of main's and draw_fractal's variables when main is entered.
MainEntry ==
    /\ pc = "start"
    /\ outcome = "running"
    /\ stdout = ""
    /\ error = ""
    /\ width = None /\ height = None
    /\ capture_width = None /\ capture_height = None
    /\ max_iter = None
    /\ scale = None
    /\ fractal_type = None
    /\ view = None
    /\ color_scheme = None
    /\ imgbuf = <<>>
    /\ writes = <<>>
    /\ calls = <<>>
    /\ iter_next = 0
    /\ worker = [t \in Workers |-> [st |-> "off", item |-> 0]]
    /\ pb = 0
    /\ resized = None
    /\ file = "absent"

\* compute_color not entered.
ColorOff ==
    /\ cc_z = CZero /\ cc_c = CZero
    /\ cc_max_iter = 0
    /\ cc_scheme = "Grayscale"
    /\ cc_w = CZero /\ cc_i = 0
    /\ cc_steps = 0
    /\ cc_color = None
    /\ cc_pc = "off"

Init ==
    /\ args \in ArgVectors
    /\ MainEntry
    /\ ColorOff

\* ------------------------------------------------------------------ main

\* args[k] of the source is args[k + 1] here: sequences start at 1.
Arg(k) == args[k + 1]

\* Mutant of ArgCountOk: extra arguments are let through.
ArgCountAtLeast(n) == n >= 8

\* Mutant of ArgCountOk: the five-argument shape is let through too.
ArgCountTwoShapes(n) == n = 8 \/ n = 6

\* The negation of main's test args.len() != 8.
ArgCountOk(n) == n = 8

\* return Err(msg.into()), and the ? operator on an Err.
Fail(msg) ==
    /\ outcome' = "Err"
    /\ error' = msg
    /\ pc' = "done"

\* if args.len() != 8 { println!("Usage: ..."); return Ok(()); }
Main_Usage ==
    /\ pc = "start"
    /\ ~ArgCountOk(Len(args))
    /\ stdout' = "usage"
    /\ outcome' = "Ok"
    /\ pc' = "done"
    /\ UNCHANGED <<args, error, width, height, capture_width,
                   capture_height, max_iter, scale, fractal_type>>
    /\ UNCHANGED <<drawVars, postVars, ccVars>>

\* let (width, height) = parse_resolution(&args[2]).ok_or(...)?;
Main_ParseResolution ==
    /\ pc = "start"
    /\ ArgCountOk(Len(args))
    /\ LET r == parse_resolution(Arg(2))
       IN  IF IsSome(r)
           THEN /\ width' = Some(Unwrap(r)[1])
                /\ height' = Some(Unwrap(r)[2])
                /\ pc' = "parse_capture"
                /\ UNCHANGED <<outcome, error>>
           ELSE /\ Fail("Invalid resolution")
                /\ UNCHANGED <<width, height>>
    /\ UNCHANGED <<args, stdout, capture_width, capture_height, max_iter,
                   scale, fractal_type>>
    /\ UNCHANGED <<drawVars, postVars, ccVars>>

\* let (capture_width, capture_height) = parse_resolution(&args[3])...?;
Main_ParseCapture ==
    /\ pc = "parse_capture"
    /\ LET r == parse_resolution(Arg(3))
       IN  IF IsSome(r)
           THEN /\ capture_width' = Some(Unwrap(r)[1])
                /\ capture_height' = Some(Unwrap(r)[2])
                /\ pc' = "parse_max_iter"
                /\ UNCHANGED <<outcome, error>>
           ELSE /\ Fail("Invalid capture size")
                /\ UNCHANGED <<capture_width, capture_height>>
    /\ UNCHANGED <<args, stdout, width, height, max_iter, scale,
                   fractal_type>>
    /\ UNCHANGED <<drawVars, postVars, ccVars>>

\* let max_iter = u32::from_str(&args[4]).map_err(...)?;
Main_ParseMaxIter ==
    /\ pc = "parse_max_iter"
    /\ LET r == U32FromStr(Arg(4))
       IN  IF IsSome(r)
           THEN /\ max_iter' = r
                /\ pc' = "parse_scale"
                /\ UNCHANGED <<outcome, error>>
           ELSE /\ Fail("Invalid max_iter")
                /\ UNCHANGED max_iter
    /\ UNCHANGED <<args, stdout, width, height, capture_width,
                   capture_height, scale, fractal_type>>
    /\ UNCHANGED <<drawVars, postVars, ccVars>>

\* let scale = f64::from_str(&args[5]).map_err(...)?;
Main_ParseScale ==
    /\ pc = "parse_scale"
    /\ LET r == F64FromStr(Arg(5))
       IN  IF IsSome(r)
           THEN /\ scale' = r
                /\ pc' = "parse_fractal_type"
                /\ UNCHANGED <<outcome, error>>
           ELSE /\ Fail("Invalid scale")
                /\ UNCHANGED scale
    /\ UNCHANGED <<args, stdout, width, height, capture_width,
                   capture_height, max_iter, fractal_type>>
    /\ UNCHANGED <<drawVars, postVars, ccVars>>

\* let fractal_type = match &args[6][..] { "mandelbrot" => ..., "julia" =>
\* { parse_complex_number(&args[7]).ok_or(...)? ... }, _ => return Err };
Main_ParseFractalType ==
    /\ pc = "parse_fractal_type"
    /\ IF Arg(6) = StrMandelbrot
       THEN /\ fractal_type' = Some([kind |-> "Mandelbrot"])
            /\ pc' = "draw_fractal"
            /\ UNCHANGED <<outcome, error>>
       ELSE IF Arg(6) = StrJulia
       THEN LET c == parse_complex_number(Arg(7))
            IN  IF IsSome(c)
                THEN /\ fractal_type' =
                            Some([kind |-> "Julia", z |-> Unwrap(c)])
                     /\ pc' = "draw_fractal"
                     /\ UNCHANGED <<outcome, error>>
                ELSE /\ Fail("Invalid complex number")
                     /\ UNCHANGED fractal_type
       ELSE /\ Fail("Invalid fractal type")
            /\ UNCHANGED fractal_type
    /\ UNCHANGED <<args, stdout, width, height, capture_width,
                   capture_height, max_iter, scale>>
    /\ UNCHANGED <<drawVars, postVars, ccVars>>

\* ------------------------------------------------- draw_fractal, running

\* The buffer's dimensions: draw_fractal's width and height are main's
\* capture_width and capture_height.
BufW == Unwrap(capture_width)
BufH == Unwrap(capture_height)

\* The call draw_fractal(...) up to the start of for_each: the buffer is
\* allocated (ImageBuffer::new zeroes it) and the progress bar is made.
\* zoom_level, pan_position and the colour scheme, which the source's call
\* sites leave out, are drawn here.
Main_DrawFractal ==
    /\ pc = "draw_fractal"
    /\ \E v \in ViewArgs, cs \in ColorSchemes :
          /\ view' = Some(v)
          /\ color_scheme' = Some(cs)
    /\ imgbuf' = [p \in Pixels(BufW, BufH) |-> Black]
    /\ writes' = [p \in Pixels(BufW, BufH) |-> 0]
    /\ calls' = [p \in Pixels(BufW, BufH) |-> None]
    /\ iter_next' = 0
    /\ worker' = [t \in Workers |-> [st |-> "idle", item |-> 0]]
    /\ pb' = 0
    /\ pc' = "for_each"
    /\ UNCHANGED <<args, outcome, stdout, error, width, height,
                   capture_width, capture_height, max_iter, scale,
                   fractal_type>>
    /\ UNCHANGED <<postVars, ccVars>>

\* par_bridge: a thread takes the next item of enumerate_pixels_mut.
Worker_Take(t) ==
    /\ pc = "for_each"
    /\ worker[t].st = "idle"
    /\ iter_next < BufW * BufH
    /\ worker' = [worker EXCEPT ![t] = [st |-> "busy", item |-> iter_next]]
    /\ iter_next' = IterAdvance(iter_next)
    /\ UNCHANGED <<view, color_scheme, imgbuf, writes, calls, pb>>
    /\ UNCHANGED <<mainVars, postVars, ccVars>>

\* The closure's body on the item a thread holds.
Worker_Pixel(t) ==
    /\ pc = "for_each"
    /\ worker[t].st = "busy"
    /\ LET px == PixelAt(worker[t].item, BufW)
           c == PixelPoint(px, BufW, BufH, Unwrap(scale),
                           Unwrap(view).zoom_level,
                           Unwrap(view).pan_position)
           call == ColorCall(Unwrap(fractal_type), c)
           color == compute_color(call.z, call.c, Unwrap(max_iter),
                                  Unwrap(color_scheme))
       IN  /\ imgbuf' = [imgbuf EXCEPT ![px] = color]
           /\ writes' = [writes EXCEPT ![px] = @ + 1]
           /\ calls' = [calls EXCEPT ![px] = Some(call)]
    /\ pb' = pb + 1
    /\ worker' = [worker EXCEPT ![t] = [st |-> "idle", item |-> 0]]
    /\ UNCHANGED <<view, color_scheme, iter_next>>
    /\ UNCHANGED <<mainVars, postVars, ccVars>>

\* The iterator is exhausted: the thread leaves for_each.
Worker_Exhausted(t) ==
    /\ pc = "for_each"
    /\ worker[t].st = "idle"
    /\ iter_next >= BufW * BufH
    /\ worker' = [worker EXCEPT ![t] = [st |-> "done", item |-> 0]]
    /\ UNCHANGED <<view, color_scheme, imgbuf, writes, calls, iter_next, pb>>
    /\ UNCHANGED <<mainVars, postVars, ccVars>>

\* Mutant of AllJoined: for_each returns when the first thread leaves it.
SomeJoined == \E t \in Workers : worker[t].st = "done"

\* for_each returns when every thread has left it.
AllJoined == \A t \in Workers : worker[t].st = "done"

\* pb.finish_with_message("done"); imgbuf is returned to main.
Draw_Return ==
    /\ pc = "for_each"
    /\ AllJoined
    /\ pc' = "resize"
    /\ UNCHANGED <<args, outcome, stdout, error, width, height,
                   capture_width, capture_height, max_iter, scale,
                   fractal_type>>
    /\ UNCHANGED <<drawVars, postVars, ccVars>>

\* ------------------------------------------------------ main, the output

\* let resized = image::imageops::resize(&imgbuf, width, height, Lanczos3);
Main_Resize ==
    /\ pc = "resize"
    /\ resized' = Some(<<Unwrap(width), Unwrap(height)>>)
    /\ pc' = "create"
    /\ UNCHANGED <<args, outcome, stdout, error, width, height,
                   capture_width, capture_height, max_iter, scale,
                   fractal_type>>
    /\ UNCHANGED <<drawVars, file, ccVars>>

\* let mut file = File::create(output_file)?;
Main_CreateFile ==
    /\ pc = "create"
    /\ \/ /\ file' = "created"
          /\ pc' = "save"
          /\ UNCHANGED <<outcome, error>>
       \/ /\ Fail("File::create failed")
          /\ UNCHANGED file
    /\ UNCHANGED <<args, stdout, width, height, capture_width,
                   capture_height, max_iter, scale, fractal_type>>
    /\ UNCHANGED <<drawVars, resized, ccVars>>

\* resized.save_with_format(&mut file, PNG)?; Ok(())
Main_Save ==
    /\ pc = "save"
    /\ \/ /\ file' = "written"
          /\ outcome' = "Ok"
          /\ pc' = "done"
          /\ UNCHANGED error
       \/ /\ Fail("save_with_format failed")
          /\ UNCHANGED file
    /\ UNCHANGED <<args, stdout, width, height, capture_width,
                   capture_height, max_iter, scale, fractal_type>>
    /\ UNCHANGED <<drawVars, resized, ccVars>>

Next ==
    \/ Main_Usage
    \/ Main_ParseResolution
    \/ Main_ParseCapture
    \/ Main_ParseMaxIter
    \/ Main_ParseScale
    \/ Main_ParseFractalType
    \/ Main_DrawFractal
    \/ \E t \in Workers : Worker_Take(t)
    \/ \E t \in Workers : Worker_Pixel(t)
    \/ \E t \in Workers : Worker_Exhausted(t)
    \/ Draw_Return
    \/ Main_Resize
    \/ Main_CreateFile
    \/ Main_Save

Spec == Init /\ [][Next]_vars

\* ------------------------------------------- compute_color, step by step

\* The coordinates k/2 for k in -Range..Range.
Grid == {Rat(k, 2) : k \in (-Range)..Range}

\* compute_color entered with any seed, parameter, bound and scheme.
InitEscape ==
    /\ args = <<ProgName>>
    /\ MainEntry
    /\ cc_z \in {Complex(a, b) : a \in Grid, b \in Grid}
    /\ cc_c \in {Complex(a, b) : a \in Grid, b \in Grid}
    /\ cc_max_iter \in 0..MaxIter
    /\ cc_scheme \in ColorSchemes
    /\ cc_w = cc_z
    /\ cc_i = 0
    /\ cc_steps = 0
    /\ cc_color = None
    /\ cc_pc = "loop"

\* One pass of the while loop: w = w * w + c; i += 1.
CC_Iterate ==
    /\ cc_pc = "loop"
    /\ LoopCond(cc_i, cc_w, cc_max_iter)
    /\ cc_w' = LoopBody(cc_w, cc_c)
    /\ cc_i' = cc_i + 1
    /\ cc_steps' = cc_steps + 1
    /\ UNCHANGED <<cc_z, cc_c, cc_max_iter, cc_scheme, cc_color, cc_pc>>
    /\ UNCHANGED <<mainVars, drawVars, postVars>>

\* The loop is left: the colour is matched and returned.
CC_Return ==
    /\ cc_pc = "loop"
    /\ ~LoopCond(cc_i, cc_w, cc_max_iter)
    /\ cc_color' = Some(ColorMatch(cc_i, cc_max_iter, cc_scheme))
    /\ cc_pc' = "done"
    /\ UNCHANGED <<cc_z, cc_c, cc_max_iter, cc_scheme, cc_w, cc_i, cc_steps>>
    /\ UNCHANGED <<mainVars, drawVars, postVars>>

NextEscape == CC_Iterate \/ CC_Return

SpecEscape == InitEscape /\ [][NextEscape]_vars

\* ------------------------------------------------------------ properties

\* The argument strings of the inputs that are malformed, listed by hand.
BadResolutionArgs ==
    {<<"1", "0", "0">>, <<"2", "x">>, <<"2", "x", "2", "x", "2">>}
BadMaxIterArgs == {<<"-", "1">>}
BadScaleArgs == {<<"4", ".", "0", ".", "0">>}
BadFractalTypeArgs == {<<"n", "e", "w", "t", "o", "n">>}
BadComplexArgs == {<<"1">>}

ParseErrors ==
    {"Invalid resolution", "Invalid capture size", "Invalid max_iter",
     "Invalid scale", "Invalid complex number", "Invalid fractal type"}

\* Nothing of draw_fractal has run, and nothing after it.
NoRendering ==
    /\ view = None /\ color_scheme = None
    /\ imgbuf = <<>> /\ writes = <<>> /\ calls = <<>>
    /\ iter_next = 0 /\ pb = 0
    /\ \A t \in Workers : worker[t].st = "off"
    /\ resized = None

NothingParsed ==
    /\ width = None /\ height = None
    /\ capture_width = None /\ capture_height = None
    /\ max_iter = None /\ scale = None /\ fractal_type = None

\* Every cell of the buffer has been assigned and the iterator is spent.
AllWritten ==
    /\ capture_width # None /\ capture_height # None
    /\ DOMAIN writes = Pixels(BufW, BufH)
    /\ \A p \in DOMAIN writes : writes[p] >= 1
    /\ iter_next >= BufW * BufH

\* The point the renderer maps pixel p to.
PointOf(p) ==
    PixelPoint(p, BufW, BufH, Unwrap(scale), Unwrap(view).zoom_level,
               Unwrap(view).pan_position)

NoZoomNoPan ==
    [zoom_level |-> FromInt(1), pan_position |-> <<FromInt(0), FromInt(0)>>]

\* C1: every call of compute_color gets the roles the fractal kind
\* prescribes: Mandelbrot, seed z0 = 0 and parameter c = the pixel's point;
\* Julia(k), seed z0 = the pixel's point and parameter c = k.
C1_CallRoles ==
    \A p \in DOMAIN calls :
        IsSome(calls[p]) =>
            LET call == Unwrap(calls[p])
                ft == Unwrap(fractal_type)
            IN  IF ft.kind = "Mandelbrot"
                THEN call.z = CZero /\ call.c = PointOf(p)
                ELSE call.z = PointOf(p) /\ call.c = ft.z

\* C2: whenever the escape loop stops with i = max_iter, the colour
\* returned is black, under every colour scheme.
C2_InSetIsBlack ==
    (cc_pc = "done" /\ cc_i = cc_max_iter) => cc_color = Some(Black)

C2_Witness ==
    /\ cc_pc = "done"
    /\ cc_i = cc_max_iter
    /\ cc_max_iter = 2
    /\ cc_scheme = "Grayscale"
    /\ cc_color = Some(Black)

\* C3: under every interleaving of the threads no cell of the buffer is
\* assigned twice, and when draw_fractal has returned every cell has been
\* assigned exactly once.
C3_EachCellOnce ==
    /\ \A p \in DOMAIN writes : writes[p] <= 1
    /\ pc \in {"resize", "create", "save"} \/ resized # None =>
          /\ DOMAIN writes = Pixels(BufW, BufH)
          /\ DOMAIN imgbuf = Pixels(BufW, BufH)
          /\ \A p \in DOMAIN writes : writes[p] = 1

C3_Witness ==
    /\ pc = "resize"
    /\ Cardinality(DOMAIN writes) = 4
    /\ \A p \in DOMAIN writes : writes[p] = 1
    /\ pb = 4

\* A parse the run attempts fails on its argument.
ParseFailure ==
    /\ Len(args) = 8
    /\ \/ Arg(2) \in BadResolutionArgs
       \/ Arg(3) \in BadResolutionArgs
       \/ Arg(4) \in BadMaxIterArgs
       \/ Arg(5) \in BadScaleArgs
       \/ Arg(6) \in BadFractalTypeArgs
       \/ Arg(6) = StrJulia /\ Arg(7) \in BadComplexArgs

\* C4: when the parse of an argument fails, the run ends with an error
\* outcome, before any rendering has begun and with no output file.
C4_ParseFailureAborts ==
    ParseFailure =>
        /\ NoRendering
        /\ file = "absent"
        /\ pc \in {"start", "parse_capture", "parse_max_iter", "parse_scale",
                   "parse_fractal_type", "done"}
        /\ pc = "done" => outcome = "Err" /\ error \in ParseErrors

C4_Witness ==
    /\ ParseFailure
    /\ pc = "done"
    /\ outcome = "Err"
    /\ error = "Invalid complex number"
    /\ file = "absent"

\* C5: with a wrong number of arguments the program prints the usage
\* message and exits successfully, having parsed no argument, rendered no
\* pixel and created no output file.
C5_WrongCountIsUsage ==
    Len(args) # 8 =>
        /\ NothingParsed
        /\ NoRendering
        /\ file = "absent"
        /\ pc \in {"start", "done"}
        /\ pc = "done" => outcome = "Ok" /\ stdout = "usage" /\ error = ""

C5_Witness ==
    /\ Len(args) = 4
    /\ pc = "done"
    /\ outcome = "Ok"
    /\ stdout = "usage"

\* The Mandelbrot-only shape: the program name, then output file, output
\* resolution, capture resolution, max_iter and scale, all well formed.
MandelbrotOnlyShape ==
    /\ Len(args) = 6
    /\ Arg(2) \notin BadResolutionArgs
    /\ Arg(3) \notin BadResolutionArgs
    /\ Arg(4) \notin BadMaxIterArgs
    /\ Arg(5) \notin BadScaleArgs

C7_CentreMapsToOrigin ==
    (pc = "for_each" /\ view = Some(NoZoomNoPan)) =>
        PointOf(<<BufW \div 2, BufH \div 2>>) = CZero

\* C8: the output file exists only after every pixel has been rendered and
\* the buffer resampled, and post-processing begins only after the render
\* has run to completion.
C8_FileAfterRenderAndResize ==
    /\ file # "absent" => AllWritten /\ AllJoined /\ resized # None
    /\ resized # None => AllWritten /\ AllJoined
    /\ pc \in {"resize", "create", "save"} => AllWritten /\ AllJoined

C8_Witness ==
    /\ pc = "done"
    /\ file = "written"
    /\ outcome = "Ok"
    /\ AllWritten
    /\ resized # None

\* C9: the escape loop applies w = w * w + c at most max_iter times and
\* then stops; the count i stays in 0..max_iter, and a count below
\* max_iter at the stop means the magnitude of w exceeded 2.
C9_Counts ==
    /\ cc_i \in 0..cc_max_iter
    /\ cc_steps = cc_i
    /\ (cc_pc = "done" /\ cc_i < cc_max_iter) => ~NormLe2(cc_w)

\* A step taken inside the loop either leaves it with the count kept or
\* applies the recurrence once more, within the bound; after the return
\* nothing moves.
C9_Step ==
    /\ cc_pc = "loop" =>
          \/ cc_pc' = "done" /\ cc_i' = cc_i /\ cc_steps' = cc_steps
          \/ /\ cc_pc' = "loop"
             /\ cc_steps' = cc_steps + 1
             /\ cc_steps' <= cc_max_iter
    /\ cc_pc = "done" => UNCHANGED ccVars

C9_LoopBounded == []C9_Counts /\ [][C9_Step]_vars

C9_Witness ==
    /\ cc_pc = "done"
    /\ cc_steps = 2
    /\ cc_i < cc_max_iter
    /\ ~NormLe2(cc_w)

\* C10: for fixed (z0, c) the escape count does not decrease when the
\* bound is raised, and a point that escaped at a step below the smaller
\* bound escapes at the same step under the larger one.  The run's count
\* under its bound is compared with the count under every other bound.
C10_MonotoneInBound ==
    cc_pc = "done" =>
        \A m \in 0..MaxIter :
            LET k == EscapeCount(cc_z, cc_c, m)
            IN  /\ m >= cc_max_iter =>
                      /\ cc_i <= k
                      /\ cc_i < cc_max_iter => k = cc_i
                /\ m <= cc_max_iter =>
                      /\ k <= cc_i
                      /\ k < m => cc_i = k

C10_Witness ==
    /\ cc_pc = "done"
    /\ cc_i = 1
    /\ cc_max_iter = 2
    /\ EscapeCount(cc_z, cc_c, MaxIter) = 1
    /\ EscapeCount(cc_z, cc_c, 1) = 1

====
